---------------------------- MODULE Spec2Model ----------------------------
(***************************************************************************)
(* A model of owi2plex.py: the conversion of OpenWebif bouquets, services  *)
(* and EPG events into an XMLTV document.                                  *)
(*                                                                         *)
(* A text is a sequence of characters; a character is a one-character      *)
(* string, except the control characters, which are written by name        *)
(* (LF, TAB, CR, VT, SOH, QUOTE, BACKSLASH, BACKTICK).  An XML element is  *)
(* a record [tag, attrs, text, kids]; an element without text has          *)
(* text = <<>>.                                                            *)
(***************************************************************************)
EXTENDS Integers, Sequences, FiniteSets, TLC

VARIABLES
    bouquets_services,  \* main: what getBouquetsServices returned
    offset,             \* the host's local-minus-UTC offset, in seconds
    pc,                 \* main's position
    epg,                \* getEPGs' dict, as a sequence of <<program, events>>
    tzoffset,           \* getOffset's string
    xmltv,              \* the children of the <tv> root, in document order
    text,               \* parseSEP's argument
    sep                 \* parseSEP's return value

vars == <<bouquets_services, offset, pc, epg, tzoffset, xmltv, text, sep>>

-----------------------------------------------------------------------------
(* Characters *)

LF == "LF"
TAB == "TAB"
CR == "CR"
VT == "VT"
SOH == "SOH"

\* The printable ASCII characters, U+0020 to U+007E, in code point order.
Printable ==
    << " ", "!", "QUOTE", "#", "$", "%", "&", "'", "(", ")", "*", "+", ",", "-",
       ".", "/", "0", "1", "2", "3", "4", "5", "6", "7", "8", "9", ":", ";",
       "<", "=", ">", "?", "@", "A", "B", "C", "D", "E", "F", "G", "H", "I",
       "J", "K", "L", "M", "N", "O", "P", "Q", "R", "S", "T", "U", "V", "W",
       "X", "Y", "Z", "[", "BACKSLASH", "]", "^", "_", "BACKTICK", "a", "b", "c", "d", "e",
       "f", "g", "h", "i", "j", "k", "l", "m", "n", "o", "p", "q", "r", "s",
       "t", "u", "v", "w", "x", "y", "z", "{", "|", "}", "~" >>

Chars == {Printable[i] : i \in 1..Len(Printable)} \cup {LF, TAB, CR, VT, SOH}

\* ord(c)
OrdTable ==
    [c \in Chars |->
        CASE c = SOH -> 1
          [] c = TAB -> 9
          [] c = LF -> 10
          [] c = VT -> 11
          [] c = CR -> 13
          [] OTHER -> 31 + (CHOOSE i \in 1..Len(Printable) : Printable[i] = c)]

Ord(c) == OrdTable[c]

Digits == {"0", "1", "2", "3", "4", "5", "6", "7", "8", "9"}

\* the regular expression classes \d, \s and \w on the model's characters
IsDigit(c) == c \in Digits

IsSpace(c) == c \in {" ", TAB, LF, VT, CR}

IsWord(c) ==
    \/ c \in Digits
    \/ c = "_"
    \/ (Ord(c) >= 65 /\ Ord(c) <= 90)
    \/ (Ord(c) >= 97 /\ Ord(c) <= 122)

DigitValue(c) == Ord(c) - 48

DigitChar(d) == Printable[d + 17]

-----------------------------------------------------------------------------
(* Texts *)

\* s[i:], with i counted from 1
From(s, i) == SubSeq(s, i, Len(s))

\* s.startswith(p, i - 1)
StartsWithAt(s, p, i) ==
    /\ i + Len(p) - 1 <= Len(s)
    /\ SubSeq(s, i, i + Len(p) - 1) = p

\* p in s, for strings
Contains(s, p) == \E i \in 1..(Len(s) + 1) : StartsWithAt(s, p, i)

\* int(s) for a run of ASCII digits
RECURSIVE ParseInt(_)
ParseInt(s) ==
    IF s = <<>> THEN 0
    ELSE 10 * ParseInt(SubSeq(s, 1, Len(s) - 1)) + DigitValue(s[Len(s)])

\* the decimal digits of n >= 0
RECURSIVE NatStr(_)
NatStr(n) ==
    IF n < 10 THEN <<DigitChar(n)>>
    ELSE NatStr(n \div 10) \o <<DigitChar(n % 10)>>

\* str(n), '{}'.format(n)
Str(n) == IF n < 0 THEN <<"-">> \o NatStr(0 - n) ELSE NatStr(n)

\* the end of the longest run of digits (\d+, \d*) starting at i; i - 1 when
\* s[i] is no digit
DigitRunEnd(s, i) ==
    IF \A k \in i..Len(s) : IsDigit(s[k]) THEN Len(s)
    ELSE (CHOOSE k \in i..Len(s) :
            ~IsDigit(s[k]) /\ \A j \in i..(k - 1) : IsDigit(s[j])) - 1

\* the end of the longest run of whitespace (\s*) starting at i
SpaceRunEnd(s, i) ==
    IF \A k \in i..Len(s) : IsSpace(s[k]) THEN Len(s)
    ELSE (CHOOSE k \in i..Len(s) :
            ~IsSpace(s[k]) /\ \A j \in i..(k - 1) : IsSpace(s[j])) - 1

\* s.split('\n'): the pieces between the line feeds
RECURSIVE Split(_)
Split(s) ==
    IF \A i \in 1..Len(s) : s[i] # LF THEN <<s>>
    ELSE LET k == CHOOSE i \in 1..Len(s) :
                    s[i] = LF /\ \A j \in 1..(i - 1) : s[j] # LF
         IN <<SubSeq(s, 1, k - 1)>> \o Split(From(s, k + 1))

\* s.split('\n', 2)
Split2(s) ==
    LET parts == Split(s)
    IN IF Len(parts) <= 2 THEN parts
       ELSE LET used == Len(parts[1]) + Len(parts[2]) + 2
            IN <<parts[1], parts[2], From(s, used + 1)>>

-----------------------------------------------------------------------------
(* TextSanitizer: valid_xml_char_ordinal, unescape *)

ValidXmlCharOrdinal(c) ==
    \/ (32 <= Ord(c) /\ Ord(c) <= 55295)
    \/ Ord(c) \in {9, 10, 13}
    \/ (57344 <= Ord(c) /\ Ord(c) <= 65533)
    \/ (65536 <= Ord(c) /\ Ord(c) <= 1114111)

\* html.entities.html5, restricted to the names the model's texts can spell
Html5Names == { <<"a", "m", "p", ";">>, <<"a", "m", "p">>,
                <<"l", "t", ";">>, <<"l", "t">>,
                <<"g", "t", ";">>, <<"g", "t">> }

Html5(name) ==
    CASE name[1] = "a" -> <<"&">>
      [] name[1] = "l" -> <<"<">>
      [] name[1] = "g" -> <<">">>

\* a character of a named reference: [^\t\n\f <&#;]
IsNameChar(c) == c \notin {TAB, LF, " ", "<", "&", "#", ";"}

\* html._replace_charref for the named reference s (without its '&'): the
\* whole name, else the longest proper prefix of two characters or more that
\* is a name, else the text as it stands
ReplaceCharref(s) ==
    IF s \in Html5Names THEN Html5(s)
    ELSE LET hits == {x \in 2..(Len(s) - 1) : SubSeq(s, 1, x) \in Html5Names}
         IN IF hits = {} THEN <<"&">> \o s
            ELSE LET x == CHOOSE y \in hits : \A z \in hits : z <= y
                 IN Html5(SubSeq(s, 1, x)) \o From(s, x + 1)

\* html.unescape on texts without '#': every '&' followed by one to 32 name
\* characters and an optional ';' is replaced
RECURSIVE HtmlUnescape(_)
HtmlUnescape(t) ==
    IF t = <<>> THEN <<>>
    ELSE IF t[1] # "&" THEN <<t[1]>> \o HtmlUnescape(Tail(t))
    ELSE LET stops == {k \in 2..Len(t) : ~IsNameChar(t[k])} \cup {Len(t) + 1, 34}
             stop == CHOOSE k \in stops : \A j \in stops : k <= j
             last == IF stop <= Len(t) /\ t[stop] = ";" THEN stop ELSE stop - 1
         IN IF stop = 2 THEN <<"&">> \o HtmlUnescape(Tail(t))
            ELSE ReplaceCharref(SubSeq(t, 2, last)) \o HtmlUnescape(From(t, last + 1))

\* unescape, as it runs where the html module exists
unescape(t) == SelectSeq(HtmlUnescape(t), ValidXmlCharOrdinal)

-----------------------------------------------------------------------------
(* TimeFormatter: getOffset *)

\* round(n / d) for d > 0: Python 3 rounds a half to the even neighbour
Round(n, d) ==
    LET f == n \div d
        r == n % d
    IN IF 2 * r < d THEN f
       ELSE IF 2 * r > d THEN f + 1
       ELSE IF f % 2 = 0 THEN f ELSE f + 1

\* "{:+05}".format(v): the sign, then the digits padded with zeros to four
FormatPlus05(v) ==
    LET sign == IF v < 0 THEN "-" ELSE "+"
        digits == NatStr(IF v < 0 THEN 0 - v ELSE v)
        pad == [i \in 1..(IF Len(digits) < 4 THEN 4 - Len(digits) ELSE 0) |-> "0"]
    IN <<sign>> \o pad \o digits

getOffset(off) ==
    LET hours == Round(off, 3600)
        minutes == off - (hours * 3600)
    IN FormatPlus05(hours * 100 + ((Round(minutes, 900) * 900) \div 60))

-----------------------------------------------------------------------------
(* EpisodeNumberParser: parseSEP *)

NoMatch == [matched |-> FALSE, S |-> <<>>, E |-> <<>>, P |-> <<>>]

\* (?:Ep|E)\s*(?P<E>\d+)(?:\/(?P<P>\d+))? matched at k, with the season s
EpAt(t, k, s) ==
    IF ~(k <= Len(t) /\ t[k] = "E") THEN NoMatch
    ELSE LET k1 == IF k + 1 <= Len(t) /\ t[k + 1] = "p" THEN k + 2 ELSE k + 1
             d1 == SpaceRunEnd(t, k1) + 1
             d2 == DigitRunEnd(t, d1)
             p2 == DigitRunEnd(t, d2 + 2)
             part == IF d2 + 1 <= Len(t) /\ t[d2 + 1] = "/" /\ p2 >= d2 + 2
                     THEN SubSeq(t, d2 + 2, p2) ELSE <<>>
         IN IF d2 < d1 THEN NoMatch
            ELSE [matched |-> TRUE, S |-> s, E |-> SubSeq(t, d1, d2), P |-> part]

\* the end of the longest run of '/' and whitespace, (?:\/|\s)*, starting at i
SlashSpaceRunEnd(t, i) ==
    IF \A k \in i..Len(t) : (t[k] = "/" \/ IsSpace(t[k])) THEN Len(t)
    ELSE (CHOOSE k \in i..Len(t) :
            /\ ~(t[k] = "/" \/ IsSpace(t[k]))
            /\ \A j \in i..(k - 1) : (t[j] = "/" \/ IsSpace(t[j]))) - 1

\* c4_style matched at i:
\* (?:S(?P<S>\d+)(?:\/|\s)*)?(?:Ep|E)\s*(?P<E>\d+)(?:\/(?P<P>\d+))?
C4At(t, i) ==
    IF t[i] = "S" /\ DigitRunEnd(t, i + 1) >= i + 1
    THEN LET a == DigitRunEnd(t, i + 1)
         IN EpAt(t, SlashSpaceRunEnd(t, a + 1) + 1, SubSeq(t, i + 1, a))
    ELSE EpAt(t, i, <<>>)

\* re.search(c4_style, t): the match at the leftmost place that has one
C4Search(t) ==
    LET at == {i \in 1..Len(t) : C4At(t, i).matched}
    IN IF at = {} THEN NoMatch
       ELSE C4At(t, CHOOSE i \in at : \A j \in at : i <= j)

\* re.search(bbc_style, t): ^(?P<E>\d+)\/(?P<P>\d+)\.
BbcSearch(t) ==
    LET a == DigitRunEnd(t, 1)
        b == DigitRunEnd(t, a + 2)
    IN IF /\ a >= 1
          /\ a + 1 <= Len(t) /\ t[a + 1] = "/"
          /\ b >= a + 2
          /\ b + 1 <= Len(t) /\ t[b + 1] = "."
       THEN [matched |-> TRUE, S |-> <<>>, E |-> SubSeq(t, 1, a),
             P |-> SubSeq(t, a + 2, b)]
       ELSE NoMatch

\* '{}'.format(int(g) - 1 if g else '')
Field(g) == IF g = <<>> THEN <<>> ELSE Str(ParseInt(g) - 1)

\* a mutant of parseSEP: the captured numbers are not decremented
parseSEPNoDecrement(t) ==
    LET c4 == C4Search(t)
        bbc == BbcSearch(t)
        m == IF c4.matched THEN c4 ELSE bbc
    IN [is_a_match |-> m.matched,
        value |-> m.S \o <<".">> \o m.E \o <<".">> \o m.P]

parseSEP(t) ==
    LET c4_style == C4Search(t)
        bbc_style == BbcSearch(t)
        match == IF c4_style.matched THEN c4_style ELSE bbc_style
    IN [is_a_match |-> match.matched,
        value |-> Field(match.S) \o <<".">> \o Field(match.E) \o <<".">>
                    \o Field(match.P)]

-----------------------------------------------------------------------------
(* XML elements *)

El(tag, attrs, txt, kids) ==
    [tag |-> tag, attrs |-> attrs, text |-> txt, kids |-> kids]

\* etree.SubElement(parent, ...): the child is appended
SubElement(parent, child) == [parent EXCEPT !.kids = @ \o <<child>>]

\* the children of e with the given tag, in document order
Children(e, tag) == SelectSeq(e.kids, LAMBDA k : k.tag = tag)

\* e.find(tag) is not None
Has(e, tag) == Children(e, tag) # <<>>

\* e.find(tag): the first child with the tag
Find(e, tag) == Children(e, tag)[1]

Lang == <<"lang", <<"e", "n">>>>

-----------------------------------------------------------------------------
(* CategoryExtractor: addCategories2Programme *)

\* the groups of re.search(r'^\[(?P<C1>[\w\s]+)[\.\s]*(?P<C2>[\w\s]+)*\]', t),
\* an unmatched group being <<>>.  Between '[' and the first ']' stand a run
\* of word characters and whitespace (C1, as long as it can be), a run of
\* dots and whitespace (as long as it can be), and a last run of word
\* characters and whitespace (C2).
CategoryGroups(t) ==
    LET closes == {k \in 2..Len(t) : t[k] = "]"}
        close == CHOOSE k \in closes : \A j \in closes : k <= j
        dots == {k \in 2..(close - 1) : t[k] = "."}
        first == CHOOSE k \in dots : \A j \in dots : k <= j
        last == CHOOSE k \in dots : \A j \in dots : j <= k
        sepEnd == SpaceRunEnd(SubSeq(t, 1, close - 1), last + 1)
    IN IF t = <<>> \/ t[1] # "[" \/ closes = {} THEN [matched |-> FALSE]
       ELSE IF \E k \in 2..(close - 1) :
                    ~(IsWord(t[k]) \/ IsSpace(t[k]) \/ t[k] = ".")
       THEN [matched |-> FALSE]
       ELSE IF close = 2 \/ t[2] = "." THEN [matched |-> FALSE]
       ELSE IF dots = {}
       THEN [matched |-> TRUE, C1 |-> SubSeq(t, 2, close - 1), C2 |-> <<>>]
       ELSE IF \E k \in first..last : ~(t[k] = "." \/ IsSpace(t[k]))
       THEN [matched |-> FALSE]
       ELSE [matched |-> TRUE, C1 |-> SubSeq(t, 2, first - 1),
             C2 |-> SubSeq(t, sepEnd + 1, close - 1)]

CategoryEl(txt) == El("category", <<Lang>>, txt, <<>>)

addCategories2Programme(programme, event) ==
    LET categories == CategoryGroups(event.shortdesc)
        p1 == IF categories.C1 # <<>>
              THEN SubElement(programme, CategoryEl(categories.C1))
              ELSE programme
    IN IF ~categories.matched THEN programme
       ELSE IF categories.C2 # <<>>
       THEN SubElement(p1, CategoryEl(categories.C2))
       ELSE p1

-----------------------------------------------------------------------------
(* SeriesInfoAnnotator: addSeriesInfo2Programme *)

IsDateSep(c) == c \in {"/", "|", ".", "-"}

\* (\d{2})[\/|\.|\-](\d{2})[\/|\.|\-](\d{4}) matched at i
AirDateAt(t, i) ==
    /\ i + 9 <= Len(t)
    /\ \A k \in {i, i + 1, i + 3, i + 4, i + 6, i + 7, i + 8, i + 9} : IsDigit(t[k])
    /\ IsDateSep(t[i + 2])
    /\ IsDateSep(t[i + 5])

\* re.search of the air date pattern: the groups (1, 2, 3) of the leftmost
\* match
AirDateSearch(t) ==
    LET at == {i \in 1..Len(t) : AirDateAt(t, i)}
        i == CHOOSE k \in at : \A j \in at : k <= j
    IN IF at = {} THEN [matched |-> FALSE]
       ELSE [matched |-> TRUE, g1 |-> SubSeq(t, i, i + 1),
             g2 |-> SubSeq(t, i + 3, i + 4), g3 |-> SubSeq(t, i + 6, i + 9)]

Movie == <<"M", "o", "v", "i", "e">>
News == <<"N", "e", "w", "s">>
Series == <<"S", "e", "r", "i", "e", "s">>

EpisodeNumEl(system, txt) == El("episode-num", <<<<"system", system>>>>, txt, <<>>)

\* a mutant of addSeriesInfo2Programme: "Series" is added whenever an
\* episode number matched, whether or not a category exists
addSeriesInfo2ProgrammeAlwaysSeries(programme, event) ==
    LET original_air_date == AirDateSearch(event.shortdesc)
        sepr == parseSEP(event.shortdesc)
        p1 == IF sepr.is_a_match
              THEN SubElement(
                     SubElement(programme, EpisodeNumEl("xmltv_ns", sepr.value)),
                     CategoryEl(Series))
              ELSE programme
    IN IF Has(programme, "category")
          /\ Find(programme, "category").text \in {Movie, News}
       THEN programme
       ELSE IF original_air_date.matched
       THEN SubElement(p1, EpisodeNumEl("original-air-date",
                original_air_date.g3 \o <<"-">> \o original_air_date.g2
                    \o <<"-">> \o original_air_date.g1))
       ELSE p1

addSeriesInfo2Programme(programme, event) ==
    LET original_air_date == AirDateSearch(event.shortdesc)
        sepr == parseSEP(event.shortdesc)
        withEpnum == SubElement(programme, EpisodeNumEl("xmltv_ns", sepr.value))
        p1 == IF ~sepr.is_a_match THEN programme
              ELSE IF ~Has(programme, "category")
              THEN SubElement(withEpnum, CategoryEl(Series))
              ELSE withEpnum
    IN IF Has(programme, "category")
          /\ Find(programme, "category").text \in {Movie, News}
       THEN programme
       ELSE IF original_air_date.matched
       THEN SubElement(p1, EpisodeNumEl("original-air-date",
                original_air_date.g3 \o <<"-">> \o original_air_date.g2
                    \o <<"-">> \o original_air_date.g1))
       ELSE p1

-----------------------------------------------------------------------------
(* CreditsExtractor: addMovieCredits *)

PersonEl(tag, txt) == El(tag, <<>>, txt, <<>>)

\* s[:-1]
DropLast(s) == SubSeq(s, 1, Len(s) - 1)

addMovieCredits(programme, event) ==
    LET cast == Split2(event.longdesc)
        actors == Split(DropLast(cast[3]))
        credits == El("credits", <<>>, <<>>,
                      <<PersonEl("director", cast[2])>>
                        \o [i \in 1..Len(actors) |-> PersonEl("actor", actors[i])])
    IN IF ~Has(programme, "category") THEN programme
       ELSE IF ~Contains(Movie, Find(programme, "category").text) THEN programme
       ELSE IF Len(cast) > 2 THEN SubElement(programme, credits)
       ELSE programme

-----------------------------------------------------------------------------
(* ProgrammeDocumentBuilder: addEvents2XML *)

\* re.sub(r'^(\[.+\]\s*)', '', t): a leading '[', one character or more of
\* its line up to the last ']' of that line, and the whitespace after it
SubtitleFirstStep(t) ==
    LET ends == {j \in 3..Len(t) :
                    t[j] = "]" /\ \A k \in 2..(j - 1) : t[k] # LF}
        j == CHOOSE k \in ends : \A m \in ends : m <= k
    IN IF t = <<>> \/ t[1] # "[" \/ ends = {} THEN t
       ELSE From(t, SpaceRunEnd(t, j + 1) + 1)

\* the last ')' that \([SE]\d+.*\) can end with when its '(' stands at k
\* (0 when there is no match at k)
ParenEnd(t, k) ==
    LET ends == {m \in (k + 3)..Len(t) :
                    t[m] = ")" /\ \A j \in (k + 3)..(m - 1) : t[j] # LF}
    IN IF /\ k + 2 <= Len(t)
          /\ t[k] = "("
          /\ t[k + 1] \in {"S", "E"}
          /\ IsDigit(t[k + 2])
          /\ ends # {}
       THEN CHOOSE m \in ends : \A j \in ends : j <= m
       ELSE 0

\* re.sub(r'\s*\([SE]\d+.*\)', '', t): every match, from the left, is cut out
\* with the whitespace before it
RECURSIVE SubtitleSecondStep(_)
SubtitleSecondStep(t) ==
    LET opens == {k \in 1..Len(t) : ParenEnd(t, k) > 0}
        k == CHOOSE i \in opens : \A j \in opens : i <= j
        starts == {i \in 1..k : \A j \in i..(k - 1) : IsSpace(t[j])}
        start == CHOOSE i \in starts : \A j \in starts : i <= j
    IN IF opens = {} THEN t
       ELSE SubSeq(t, 1, start - 1) \o SubtitleSecondStep(From(t, ParenEnd(t, k) + 1))

NewPrefix == <<"N", "e", "w", ":", " ">>

\* t.replace('New: ', ''): every occurrence, from the left
RECURSIVE RemoveNew(_)
RemoveNew(t) ==
    IF t = <<>> THEN <<>>
    ELSE IF StartsWithAt(t, NewPrefix, 1) THEN RemoveNew(From(t, Len(NewPrefix) + 1))
    ELSE <<t[1]>> \o RemoveNew(Tail(t))

\* datetime.strftime("%Y%m%d%H%M%S {}".format(tzoffset)): the instant, kept as
\* epoch seconds, and the offset suffix
Stamp(seconds, tz) == [seconds |-> seconds, suffix |-> tz]

\* lines 297-317: the programme with its length, desc and sub-title
DescribedProgramme(service_program, event, tz) ==
    LET programme ==
            El("programme",
               << <<"channel", service_program>>,
                  <<"start", Stamp(event.begin_timestamp, tz)>>,
                  <<"stop", Stamp(event.begin_timestamp + 60 * event.duration, tz)>> >>,
               <<>>,
               << El("length", << <<"units", "minutes">> >>, Str(event.duration), <<>>) >>)
        subtitle == SubtitleSecondStep(SubtitleFirstStep(event.shortdesc))
    IN IF event.longdesc = <<>>
       THEN SubElement(programme, El("desc", <<Lang>>, unescape(event.shortdesc), <<>>))
       ELSE LET p1 == SubElement(programme,
                        El("desc", <<Lang>>, unescape(event.longdesc), <<>>))
            IN IF Len(subtitle) > 0
               THEN SubElement(p1, El("sub-title", <<Lang>>, unescape(subtitle), <<>>))
               ELSE p1

\* lines 319-325: the new marker and the title
TitledProgramme(programme, event) ==
    LET title == unescape(event.title)
    IN IF Contains(title, NewPrefix)
       THEN SubElement(SubElement(programme, El("new", <<>>, <<>>, <<>>)),
                       El("title", <<Lang>>, RemoveNew(title), <<>>))
       ELSE SubElement(programme, El("title", <<Lang>>, title, <<>>))

\* the body of addEvents2XML's inner loop: one programme
Programme(service_program, event, tz) ==
    addMovieCredits(
        addSeriesInfo2Programme(
            addCategories2Programme(
                TitledProgramme(DescribedProgramme(service_program, event, tz), event),
                event),
            event),
        event)

\* the programmes of one epg entry
ProgrammesOf(entry, tz) ==
    [i \in 1..Len(entry[2]) |-> Programme(entry[1], entry[2][i], tz)]

RECURSIVE addEvents2XML(_, _, _)
addEvents2XML(tv, e, tz) ==
    IF e = <<>> THEN tv
    ELSE addEvents2XML(tv \o ProgrammesOf(Head(e), tz), Tail(e), tz)

-----------------------------------------------------------------------------
(* getEPGs, ChannelDocumentBuilder: addChannels2XML *)

\* a mutant of Truthy: every non-null position counts
TruthyNotNull(pos) == pos # <<>>

\* the truth value of service['pos']: a position is <<>> (null) or <<n>>
Truthy(pos) == pos # <<>> /\ pos[1] # 0

\* the services of all bouquets, in the order the loops visit them
RECURSIVE Flatten(_)
Flatten(bs) == IF bs = <<>> THEN <<>> ELSE Head(bs) \o Flatten(Tail(bs))

DictHas(d, key) == \E i \in 1..Len(d) : d[i][1] = key

\* d[key]
DictGet(d, key) == d[CHOOSE i \in 1..Len(d) : d[i][1] = key][2]

\* a mutant of DictSet: a key set again moves to the end
DictSetMoveToEnd(d, key, value) ==
    SelectSeq(d, LAMBDA kv : kv[1] # key) \o << <<key, value>> >>

\* d[key] = value: a new key is appended, a known key keeps its place
DictSet(d, key, value) ==
    IF DictHas(d, key)
    THEN [i \in 1..Len(d) |-> IF d[i][1] = key THEN <<key, value>> ELSE d[i]]
    ELSE d \o << <<key, value>> >>

\* getEPGs over the services left to visit; service.events is what the
\* request for that service's EPG returns
RECURSIVE getEPGsFrom(_, _)
getEPGsFrom(e, services) ==
    IF services = <<>> THEN e
    ELSE LET service == Head(services)
         IN getEPGsFrom(IF Truthy(service.pos)
                        THEN DictSet(e, service.program, service.events)
                        ELSE e,
                        Tail(services))

getEPGs(bs) == getEPGsFrom(<<>>, Flatten(bs))

ApiRootUrl == "http://localhost:80"

ChannelEl(service, e) ==
    LET names == << El("display-name", <<>>, unescape(service.servicename), <<>>),
                    El("display-name", <<>>, Str(service.pos[1]), <<>>) >>
        events == DictGet(e, service.program)
    IN El("channel", << <<"id", service.program>> >>, <<>>,
          IF events # <<>>
          THEN names \o << El("icon", << <<"src", <<ApiRootUrl, events[1].picon>> >> >>,
                              <<>>, <<>>) >>
          ELSE names)

RECURSIVE addChannelsFrom(_, _, _)
addChannelsFrom(tv, services, e) ==
    IF services = <<>> THEN tv
    ELSE LET service == Head(services)
         IN addChannelsFrom(IF Truthy(service.pos)
                            THEN tv \o <<ChannelEl(service, e)>>
                            ELSE tv,
                            Tail(services), e)

addChannels2XML(tv, bs, e) == addChannelsFrom(tv, Flatten(bs), e)

-----------------------------------------------------------------------------
(* Inputs *)

MaxShort == 3
MaxLong == 4
MaxTitle == 3
MaxSep == 4
MaxListings == 3

\* the concatenations of at most n of the given pieces
RECURSIVE Concats(_, _)
Concats(pieces, n) ==
    IF n = 0 THEN {<<>>}
    ELSE LET shorter == Concats(pieces, n - 1)
         IN shorter \cup {s \o q : s \in shorter, q \in pieces}

\* pieces of a short description
ShortPieces ==
    { <<"[", "M", "o", "v", "i", "e", "]">>,
      <<"[", "N", "e", "w", "s", "]">>,
      <<"[", "M", "o", "v", "]">>,
      <<"[", "D", "r", "a", "m", "a", ".">>,
      <<"M", "o", "v", "i", "e", "]">>,
      <<"E", "p", "3", "/", "6">>,
      <<"3", "/", "6", ".">>,
      <<"0", "1", ".", "0", "2", ".", "2", "0", "0", "3">>,
      <<" ", "(", "E", "3", ")">> }

\* pieces of a long description.  lxml refuses a text that holds a control
\* character (ValueError), and the director and actor texts are set from the
\* long description as it stands: the long descriptions hold none
LongPieces ==
    { <<"P", LF>>,
      <<"T", "o", "m">>,
      <<LF>>,
      <<"&", "a", "m", "p", ";">> }

\* pieces of a title
TitlePieces ==
    { <<"N", "e", "w", ":", " ">>,
      <<"x">>,
      <<"&", "a", "m", "p", ";">>,
      <<SOH>> }

\* pieces of a text given to parseSEP
SepPieces ==
    { <<"S">>,
      <<"E">>,
      <<"E", "p">>,
      <<"/">>,
      <<".">>,
      <<" ">>,
      <<"3">>,
      <<"6">>,
      <<"0">>,
      <<"3", "/", "6", ".">> }

ShortDescs == Concats(ShortPieces, MaxShort)
LongDescs == Concats(LongPieces, MaxLong)
Titles == Concats(TitlePieces, MaxTitle)
SepTexts == Concats(SepPieces, MaxSep)

Event(title, shortdesc, longdesc) ==
    [title |-> title, shortdesc |-> shortdesc, longdesc |-> longdesc,
     begin_timestamp |-> 0, duration |-> 30, picon |-> "/picon/1.png"]

Service(pos, program, events) ==
    [pos |-> pos, servicename |-> <<"A", "&", "a", "m", "p", ";", "E">>, program |-> program,
     events |-> events]

PlainTitle == <<"S", "h", "o", "w">>
CastText == <<"P", LF, "D", "a", "n", LF, "T", "o", "m", LF, "A", "n", "n", LF>>

\* the events of the programme-level specification: a varied short
\* description, a varied long description under a fixed category, or a varied
\* title
ProgEvents ==
    {Event(PlainTitle, s, l) : s \in ShortDescs, l \in {<<>>, CastText}}
    \cup {Event(PlainTitle, s, l) :
            s \in {<<>>, <<"[", "M", "o", "v", "i", "e", "]">>, <<"[", "M", "o", "v", "]">>}, l \in LongDescs}
    \cup {Event(t, <<>>, <<>>) : t \in Titles}

EvA == Event(PlainTitle, <<"[", "M", "o", "v", "i", "e", "]">>, <<>>)
EvB == Event(<<"N", "e", "w", ":", " ", "x">>, <<"E", "p", "3", "/", "6">>, CastText)

\* the listings of the document-level specification: a position that is
\* null, zero or one, and a program reference with what its EPG request
\* returns
Listings ==
    {Service(pos, l[1], l[2]) :
        pos \in {<<>>, <<0>>, <<1>>},
        l \in {<<"p1", <<EvA>>>>, <<"p2", <<EvB, EvA>>>>, <<"p1", <<>>>>}}

\* the sequences of exactly n listings
RECURSIVE ListingSeqs(_)
ListingSeqs(n) ==
    IF n = 0 THEN {<<>>}
    ELSE {<<l>> \o r : l \in Listings, r \in ListingSeqs(n - 1)}

\* the sequences of non-empty bouquets that list n services in all
RECURSIVE BouquetSeqs(_)
BouquetSeqs(n) ==
    IF n = 0 THEN {<<>>}
    ELSE UNION {{<<b>> \o r : b \in ListingSeqs(k), r \in BouquetSeqs(n - k)} :
                    k \in 1..n}

HostOffset == 60 * 60

-----------------------------------------------------------------------------
(* main *)

NotParsed == [is_a_match |-> FALSE, value |-> <<>>]

Start(bs, off) ==
    /\ bouquets_services = bs
    /\ offset = off
    /\ pc = "getEPGs"
    /\ epg = <<>>
    /\ tzoffset = <<>>
    /\ xmltv = <<>>
    /\ text = <<>>
    /\ sep = NotParsed

\* document level: up to MaxListings services in any split into bouquets
Init == \E n \in 0..MaxListings : \E bs \in BouquetSeqs(n) : Start(bs, HostOffset)

\* programme level: one service with one event
InitProg == \E e \in ProgEvents : Start(<< <<Service(<<1>>, "p1", <<e>>)>> >>, HostOffset)

\* every offset from -12:00 to +14:00 in steps of a quarter of an hour
InitOffset == \E q \in (0 - 48)..56 : Start(<<>>, 900 * q)

InitSEP ==
    /\ text \in SepTexts
    /\ sep = NotParsed
    /\ pc = "parseSEP"
    /\ bouquets_services = <<>>
    /\ offset = HostOffset
    /\ epg = <<>>
    /\ tzoffset = <<>>
    /\ xmltv = <<>>

GetEPGs ==
    /\ pc = "getEPGs"
    /\ epg' = getEPGs(bouquets_services)
    /\ pc' = "getOffset"
    /\ UNCHANGED <<bouquets_services, offset, tzoffset, xmltv, text, sep>>

GetOffset ==
    /\ pc = "getOffset"
    /\ tzoffset' = getOffset(offset)
    /\ pc' = "addChannels2XML"
    /\ UNCHANGED <<bouquets_services, offset, epg, xmltv, text, sep>>

AddChannels2XML ==
    /\ pc = "addChannels2XML"
    /\ xmltv' = addChannels2XML(xmltv, bouquets_services, epg)
    /\ pc' = "addEvents2XML"
    /\ UNCHANGED <<bouquets_services, offset, epg, tzoffset, text, sep>>

AddEvents2XML ==
    /\ pc = "addEvents2XML"
    /\ xmltv' = addEvents2XML(xmltv, epg, tzoffset)
    /\ pc' = "done"
    /\ UNCHANGED <<bouquets_services, offset, epg, tzoffset, text, sep>>

ParseSEP ==
    /\ pc = "parseSEP"
    /\ sep' = parseSEP(text)
    /\ pc' = "parsed"
    /\ UNCHANGED <<bouquets_services, offset, epg, tzoffset, xmltv, text>>

Next == GetEPGs \/ GetOffset \/ AddChannels2XML \/ AddEvents2XML

NextSEP == ParseSEP

Spec == Init /\ [][Next]_vars

SpecProg == InitProg /\ [][Next]_vars

SpecOffset == InitOffset /\ [][Next]_vars

SpecSEP == InitSEP /\ [][NextSEP]_vars

-----------------------------------------------------------------------------
(* What the claims speak of *)

Channels == SelectSeq(xmltv, LAMBDA e : e.tag = "channel")

Programmes == SelectSeq(xmltv, LAMBDA e : e.tag = "programme")

\* the value of attribute name of element e
Attr(e, name) == e.attrs[CHOOSE i \in 1..Len(e.attrs) : e.attrs[i][1] = name][2]

\* the texts of the children of e with the given tag
Texts(e, tag) == [i \in 1..Len(Children(e, tag)) |-> Children(e, tag)[i].text]

\* every service listed, in visiting order
Listed == Flatten(bouquets_services)

\* the number of places of sequence q that satisfy Test
Count(q, Test(_)) == Cardinality({i \in 1..Len(q) : Test(q[i])})

\* programme level: the one event and, once the document is built, its
\* programme
TheEvent == bouquets_services[1][1].events[1]

TheProgramme == Programmes[1]

\* the categories CategoryExtractor produces for event e
Extracted(e) == Texts(addCategories2Programme(El("programme", <<>>, <<>>, <<>>), e),
                      "category")

-----------------------------------------------------------------------------
(* C1 *)

\* C1: a programme that carries a category "Movie" or "News", in any of its
\* category slots, has no episode-num child.
C1_MovieNewsNoEpisodeNum ==
    pc = "done" =>
        \A i \in 1..Len(Programmes) :
            (\E k \in 1..Len(Texts(Programmes[i], "category")) :
                Texts(Programmes[i], "category")[k] \in {Movie, News})
            => ~Has(Programmes[i], "episode-num")

-----------------------------------------------------------------------------
(* C2 *)

\* C2 as stated: for every program reference, the channel elements with that
\* id are as many as the listed services with that reference and a non-null
\* position, whatever the integer; no other channel element exists.
C2_ChannelPerNonNullPosition ==
    pc \in {"addEvents2XML", "done"} =>
        /\ Len(Channels) = Count(Listed, LAMBDA s : s.pos # <<>>)
        /\ \A r \in {"p1", "p2"} :
              Count(Channels, LAMBDA c : Attr(c, "id") = r)
                = Count(Listed, LAMBDA s : s.pos # <<>> /\ s.program = r)

\* C2 as amended: for every program reference, the channel elements with that
\* id are as many as the listed services with that reference and a position
\* that is neither null nor zero; no other channel element exists.
C2_ChannelPerNonZeroPosition ==
    pc \in {"addEvents2XML", "done"} =>
        /\ Len(Channels) = Count(Listed, LAMBDA s : s.pos # <<>> /\ s.pos # <<0>>)
        /\ \A r \in {"p1", "p2"} :
              Count(Channels, LAMBDA c : Attr(c, "id") = r)
                = Count(Listed, LAMBDA s :
                            s.pos # <<>> /\ s.pos # <<0>> /\ s.program = r)

\* C2's case: a service with a null position, one with position zero and one
\* with position one are listed, and one channel is emitted.
C2_Witness ==
    /\ pc = "done"
    /\ \E i, j, k \in 1..Len(Listed) :
          Listed[i].pos = <<>> /\ Listed[j].pos = <<0>> /\ Listed[k].pos = <<1>>
    /\ Len(Channels) = 1

-----------------------------------------------------------------------------
(* C3 *)

\* the services whose EPG is requested, in visiting order
Visited == SelectSeq(Listed, LAMBDA s : s.pos # <<>> /\ s.pos # <<0>>)

\* one programme per event of each of the services q, in order
RECURSIVE ProgrammesPerVisit(_, _)
ProgrammesPerVisit(q, tz) ==
    IF q = <<>> THEN <<>>
    ELSE [i \in 1..Len(Head(q).events) |->
            Programme(Head(q).program, Head(q).events[i], tz)]
         \o ProgrammesPerVisit(Tail(q), tz)

\* the visits that are the first of their program reference, each with the
\* events of the last visit of that reference
FirstVisits ==
    LET n == Len(Visited)
        lastOf(i) == CHOOSE j \in i..n :
                        /\ Visited[j].program = Visited[i].program
                        /\ \A k \in (j + 1)..n : Visited[k].program # Visited[i].program
        firsts == {i \in 1..n : \A j \in 1..(i - 1) : Visited[j].program # Visited[i].program}
        pick[i \in 0..n] ==
            IF i = 0 THEN <<>>
            ELSE IF i \in firsts
            THEN pick[i - 1] \o <<[program |-> Visited[i].program,
                                   events |-> Visited[lastOf(i)].events]>>
            ELSE pick[i - 1]
    IN pick[n]

\* C3 as stated: the programme elements are, in order, one per event of every
\* visit of a position-bearing service, a service listed more than once
\* included.
C3_ProgrammePerVisitedEvent ==
    pc = "done" => Programmes = ProgrammesPerVisit(Visited, tzoffset)

\* C3 as amended: the programme elements are, in order, one per event of every
\* distinct program reference among the position-bearing services, the
\* references in the order of their first visit and the events those of the
\* reference's last visit; a reference listed more than once gives its
\* programmes once.
C3_ProgrammePerReference ==
    pc = "done" => Programmes = ProgrammesPerVisit(FirstVisits, tzoffset)

\* C3's case: a reference is visited, then another, then the first again with
\* other events, and programmes are emitted.
C3_Witness ==
    /\ pc = "done"
    /\ Len(Visited) = 3
    /\ Visited[1].program = Visited[3].program
    /\ Visited[1].program # Visited[2].program
    /\ Visited[1].events # Visited[3].events
    /\ Len(Programmes) = 3

-----------------------------------------------------------------------------
(* C4 *)

\* C4: the offset string has five characters, a sign, two digits of hours and
\* two digits of minutes that are 00, 15, 30 or 45, and denotes the host's
\* offset.
C4_OffsetStringDenotesOffset ==
    tzoffset # <<>> =>
        /\ Len(tzoffset) = 5
        /\ tzoffset[1] \in {"+", "-"}
        /\ \A i \in 2..5 : IsDigit(tzoffset[i])
        /\ ParseInt(SubSeq(tzoffset, 4, 5)) \in {0, 15, 30, 45}
        /\ (IF tzoffset[1] = "-" THEN 0 - 1 ELSE 1)
             * (3600 * ParseInt(SubSeq(tzoffset, 2, 3))
                  + 60 * ParseInt(SubSeq(tzoffset, 4, 5)))
           = offset

-----------------------------------------------------------------------------
(* C5 *)

\* C5: a programme has a credits element only if its first category text is
\* exactly "Movie".
C5_CreditsOnlyForMovie ==
    pc = "done" =>
        \A i \in 1..Len(Programmes) :
            Has(Programmes[i], "credits")
            => /\ Has(Programmes[i], "category")
               /\ Find(Programmes[i], "category").text = Movie

-----------------------------------------------------------------------------
(* C6 *)

\* the text the desc element is made from
DescSource(e) == IF e.longdesc = <<>> THEN e.shortdesc ELSE e.longdesc

\* C6: every text of the document is the sanitizer's result for its source
\* text: the display name for the service name, desc, sub-title and title for
\* the event's texts, every category for the captured group, the director for
\* the second line of the long description and every actor for its line of
\* the cast.
C6_EmbeddedTextSanitized ==
    pc = "done" =>
        /\ Texts(Channels[1], "display-name")[1]
             = unescape(bouquets_services[1][1].servicename)
        /\ Texts(TheProgramme, "desc") = <<unescape(DescSource(TheEvent))>>
        /\ \A i \in 1..Len(Texts(TheProgramme, "sub-title")) :
              Texts(TheProgramme, "sub-title")[i]
                = unescape(SubtitleSecondStep(SubtitleFirstStep(TheEvent.shortdesc)))
        /\ Texts(TheProgramme, "title")[1]
             \in {unescape(TheEvent.title), RemoveNew(unescape(TheEvent.title))}
        /\ \A i \in 1..Len(Extracted(TheEvent)) :
              Texts(TheProgramme, "category")[i] = unescape(Extracted(TheEvent)[i])
        /\ Has(TheProgramme, "credits") =>
              /\ Texts(Find(TheProgramme, "credits"), "director")
                   = <<unescape(Split2(TheEvent.longdesc)[2])>>
              /\ \A i \in 1..Len(Texts(Find(TheProgramme, "credits"), "actor")) :
                    Texts(Find(TheProgramme, "credits"), "actor")[i]
                      = unescape(Texts(Find(TheProgramme, "credits"), "actor")[i])

-----------------------------------------------------------------------------
(* C7 *)

\* C7: when the short description matches an episode pattern and no category
\* was extracted, the programme's only category is "Series"; when a category
\* was extracted, the programme's categories are the extracted ones and no
\* other; no programme has more than two.
C7_SeriesOnlyWithoutCategory ==
    pc = "done" =>
        /\ (Extracted(TheEvent) = <<>> /\ parseSEP(TheEvent.shortdesc).is_a_match)
             => Texts(TheProgramme, "category") = <<Series>>
        /\ Extracted(TheEvent) # <<>>
             => Texts(TheProgramme, "category") = Extracted(TheEvent)
        /\ Len(Texts(TheProgramme, "category")) <= 2

\* C7's case: an episode number matched in a short description without a
\* category, and the programme got "Series" after its episode-num.
C7_Witness ==
    /\ pc = "done"
    /\ Extracted(TheEvent) = <<>>
    /\ parseSEP(TheEvent.shortdesc).is_a_match
    /\ Has(TheProgramme, "episode-num")
    /\ Texts(TheProgramme, "category") = <<Series>>

-----------------------------------------------------------------------------
(* C8 *)

AllDigits(u) == u # <<>> /\ \A i \in 1..Len(u) : IsDigit(u[i])

\* the digit run of t that starts at i and ends where the digits end
DigitRunsAt(t, i) ==
    {SubSeq(t, i, j) : j \in {k \in i..Len(t) :
        AllDigits(SubSeq(t, i, k)) /\ (k = Len(t) \/ ~IsDigit(t[k + 1]))}}

\* u is Ep or E, whitespace, digits, and perhaps '/' and digits
EpisodeForm(u) ==
    \E a \in 1..2 : \E b \in a..Len(u) : \E c \in (b + 1)..Len(u) :
        /\ SubSeq(u, 1, a) \in {<<"E">>, <<"E", "p">>}
        /\ \A k \in (a + 1)..b : IsSpace(u[k])
        /\ AllDigits(SubSeq(u, b + 1, c))
        /\ (c = Len(u)
              \/ (c + 2 <= Len(u) /\ u[c + 1] = "/" /\ AllDigits(From(u, c + 2))))

\* u is of the primary style: perhaps S, digits and a run of '/' and
\* whitespace, then an episode form
PrimaryForm(u) ==
    \/ EpisodeForm(u)
    \/ \E a \in 2..Len(u) : \E b \in a..Len(u) :
          /\ u[1] = "S"
          /\ AllDigits(SubSeq(u, 2, a))
          /\ \A k \in (a + 1)..b : (u[k] = "/" \/ IsSpace(u[k]))
          /\ EpisodeForm(From(u, b + 1))

PrimaryMatches(t) ==
    \E i \in 1..Len(t) : \E j \in i..Len(t) : PrimaryForm(SubSeq(t, i, j))

\* t begins with digits, '/', digits and '.'
FallbackMatches(t) ==
    \E a \in 1..Len(t) : \E b \in (a + 2)..(Len(t) - 1) :
        /\ AllDigits(SubSeq(t, 1, a))
        /\ t[a + 1] = "/"
        /\ AllDigits(SubSeq(t, a + 2, b))
        /\ t[b + 1] = "."

\* the places of the dots of v
Dots(v) == {i \in 1..Len(v) : v[i] = "."}

\* the fields of a value with two dots
FieldsOf(v) ==
    LET d1 == CHOOSE i \in Dots(v) : \A j \in Dots(v) : i <= j
        d2 == CHOOSE i \in Dots(v) : \A j \in Dots(v) : j <= i
    IN <<SubSeq(v, 1, d1 - 1), SubSeq(v, d1 + 1, d2 - 1), From(v, d2 + 1)>>

\* the numbers, less one, of the digit runs of t that end where the digits end
Decremented(t) ==
    UNION {{Str(ParseInt(u) - 1) : u \in DigitRunsAt(t, i)} : i \in 1..Len(t)}

\* the numbers, less one, of the digit runs that follow E or Ep and whitespace
DecrementedEpisodes(t) ==
    UNION {{Str(ParseInt(u) - 1) : u \in DigitRunsAt(t, j + 1)} :
            j \in {k \in 1..Len(t) :
                    \E i \in 1..k : \E a \in i..k :
                        /\ SubSeq(t, i, a) \in {<<"E">>, <<"E", "p">>}
                        /\ \A m \in (a + 1)..k : IsSpace(t[m])}}

\* C8: parseSEP matches exactly when the primary or the fallback style does;
\* its value has two dots and three fields, each empty or a number of the text
\* less one; the value is ".." exactly without a match; the episode is the
\* primary style's whenever that matches; "Ep3/6" and "3/6." give ".2.5".
C8_ParseSEPShape ==
    pc = "parsed" =>
        /\ sep.is_a_match <=> (PrimaryMatches(text) \/ FallbackMatches(text))
        /\ Cardinality(Dots(sep.value)) = 2
        /\ \A i \in 1..3 :
              FieldsOf(sep.value)[i] \in {<<>>} \cup Decremented(text)
        /\ sep.value = <<".", ".">> <=> ~sep.is_a_match
        /\ PrimaryMatches(text) => FieldsOf(sep.value)[2] \in DecrementedEpisodes(text)
        /\ ~PrimaryMatches(text) => FieldsOf(sep.value)[1] = <<>>
        /\ text \in {<<"E", "p", "3", "/", "6">>, <<"3", "/", "6", ".">>}
             => sep = [is_a_match |-> TRUE, value |-> <<".", "2", ".", "5">>]

\* C8's case: both styles match, and the value is the primary style's.
C8_Witness ==
    /\ pc = "parsed"
    /\ text = <<"3", "/", "6", ".", "E", "6">>
    /\ sep = [is_a_match |-> TRUE, value |-> <<".", "5", ".">>]

-----------------------------------------------------------------------------
(* C9 *)

\* the lines of a cast blob, a blank last entry left by a final line feed
\* dropped
CastLines(blob) ==
    IF blob # <<>> /\ blob[Len(blob)] = LF
    THEN DropLast(Split(blob))
    ELSE Split(blob)

\* C9: a Movie programme whose long description has three parts has one
\* director, the second line, and one actor for every line of the cast, the
\* whole line; with fewer parts it has no credits.
C9_ActorsAreCastLines ==
    (pc = "done" /\ Extracted(TheEvent) # <<>> /\ Extracted(TheEvent)[1] = Movie) =>
        IF Len(Split2(TheEvent.longdesc)) < 3
        THEN ~Has(TheProgramme, "credits")
        ELSE /\ Len(Children(TheProgramme, "credits")) = 1
             /\ Texts(Find(TheProgramme, "credits"), "director")
                  = <<Split2(TheEvent.longdesc)[2]>>
             /\ Texts(Find(TheProgramme, "credits"), "actor")
                  = CastLines(Split2(TheEvent.longdesc)[3])

-----------------------------------------------------------------------------
(* C10 *)

\* C10: the programme has a new marker exactly when its sanitized title begins
\* with "New: "; its title is then the sanitized title without that prefix,
\* and the sanitized title otherwise.
C10_NewOnlyForPrefix ==
    pc = "done" =>
        LET title == unescape(TheEvent.title)
        IN /\ Has(TheProgramme, "new") <=> StartsWithAt(title, NewPrefix, 1)
           /\ Texts(TheProgramme, "title")
                = <<IF StartsWithAt(title, NewPrefix, 1)
                    THEN From(title, Len(NewPrefix) + 1)
                    ELSE title>>

=============================================================================
